---------------------------- MODULE Spec2Model ----------------------------
(***************************************************************************)
(* Model of the AI Engineer agent pipeline (AgenticWorkflow/               *)
(* AI_Engineer_Agent.py): the response extractor parse_json_response, the  *)
(* four stage functions and the generate/review loop of                    *)
(* generate_ai_service.                                                    *)
(*                                                                         *)
(* A text is a sequence of tokens.  A token stands for a substring that    *)
(* the code treats as a unit: a JSON structural character, a double quote, *)
(* a blank, a markdown fence, a reasoning marker, a decimal digit, or a    *)
(* word (a run of letters).  A Python value is a record [t, v] with a type *)
(* tag t and a payload v:                                                  *)
(*    "dict"  v = sequence of <<key, value>> pairs, keys unique, in        *)
(*                insertion order (a key is the text of the key string)    *)
(*    "list"  v = sequence of values                                       *)
(*    "str"   v = text                                                     *)
(*    "int"   v = natural number                                           *)
(*    "bool"  v = TRUE or FALSE                                            *)
(*    "None"  v = 0                                                        *)
(***************************************************************************)
EXTENDS Integers, Sequences, FiniteSets, TLC

\* ------------------------------------------------------------------ tokens
LBRACE == "{"
RBRACE == "}"
LBRACK == "["
RBRACK == "]"
COLON == ":"
COMMA == ","
QUOTE == "\""
ESCQUOTE == "\\\""
WS == " "
\* the markdown fence: three backquotes
FENCE == "<fence>"
THINK_OPEN == "<think>"
THINK_CLOSE == "</think>"
Digits == <<"0", "1", "2", "3", "4", "5", "6", "7", "8", "9">>
DigitTokens == {Digits[i] : i \in 1..10}
DigitValue(d) == (CHOOSE i \in 1..10 : Digits[i] = d) - 1

\* ------------------------------------------------------------ Python values
PyDict(pairs) == [t |-> "dict", v |-> pairs]
PyList(items) == [t |-> "list", v |-> items]
PyStr(text) == [t |-> "str", v |-> text]
PyInt(n) == [t |-> "int", v |-> n]
PyBool(b) == [t |-> "bool", v |-> b]
PyNone == [t |-> "None", v |-> 0]
EmptyDict == PyDict(<<>>)
EmptyStr == PyStr(<<>>)

\* dict: key lookup, d.get(k, default), d[k] = x (an existing key keeps its
\* position, a new key is appended)
HasKey(d, k) == \E i \in 1..Len(d.v) : d.v[i][1] = k
Lookup(d, k) == d.v[CHOOSE i \in 1..Len(d.v) : d.v[i][1] = k][2]
DictGet(d, k, default) == IF HasKey(d, k) THEN Lookup(d, k) ELSE default
DictSet(d, k, x) ==
    IF HasKey(d, k)
    THEN PyDict([i \in 1..Len(d.v) |->
                    IF d.v[i][1] = k THEN <<k, x>> ELSE d.v[i]])
    ELSE PyDict(Append(d.v, <<k, x>>))
Keys(d) == {d.v[i][1] : i \in 1..Len(d.v)}

\* bool(x): Python truthiness
Truthy(x) ==
    CASE x.t = "bool" -> x.v
      [] x.t = "int" -> x.v # 0
      [] x.t = "None" -> FALSE
      [] OTHER -> Len(x.v) > 0

\* ------------------------------------------------------------ str methods
\* sub occurs in s at index i
OccursAt(s, sub, i) ==
    /\ i >= 1
    /\ i + Len(sub) - 1 <= Len(s)
    /\ \A j \in 1..Len(sub) : s[i + j - 1] = sub[j]

\* the test: sub in s
Contains(s, sub) == \E i \in 1..(Len(s) + 1) : OccursAt(s, sub, i)

\* s.find(sub): least index of an occurrence, 0 when there is none
Find(s, sub) ==
    IF Contains(s, sub)
    THEN CHOOSE i \in 1..(Len(s) + 1) :
            /\ OccursAt(s, sub, i)
            /\ \A j \in 1..(i - 1) : ~OccursAt(s, sub, j)
    ELSE 0

\* s.strip()
RECURSIVE LStrip(_)
LStrip(s) == IF s # <<>> /\ Head(s) = WS THEN LStrip(Tail(s)) ELSE s
RECURSIVE RStrip(_)
RStrip(s) ==
    IF s # <<>> /\ s[Len(s)] = WS THEN RStrip(SubSeq(s, 1, Len(s) - 1)) ELSE s
Strip(s) == RStrip(LStrip(s))

\* s.split(sep), sep non-empty: the sequence of parts
RECURSIVE Split(_, _)
Split(s, sep) ==
    LET i == Find(s, sep)
    IN  IF i = 0
        THEN <<s>>
        ELSE <<SubSeq(s, 1, i - 1)>> \o Split(SubSeq(s, i + Len(sep), Len(s)), sep)

\* re.sub(r'<think>.*?</think>', '', s, flags=re.DOTALL): every leftmost,
\* shortest span from an opening marker to the next closing marker is removed
\* variant: the greedy pattern <think>.*</think>, from the first opening
\* marker to the last closing marker after it
ReSubThink_Greedy(s) ==
    LET i == Find(s, <<THINK_OPEN>>)
        closes == {j \in 1..Len(s) : j > i /\ s[j] = THINK_CLOSE}
        last == CHOOSE j \in closes : \A k \in closes : k <= j
    IN  IF i = 0 \/ closes = {}
        THEN s
        ELSE SubSeq(s, 1, i - 1) \o SubSeq(s, last + 1, Len(s))
RECURSIVE ReSubThink(_)
ReSubThink(s) ==
    LET i == Find(s, <<THINK_OPEN>>)
        rest == SubSeq(s, i + 1, Len(s))
        j == Find(rest, <<THINK_CLOSE>>)
    IN  IF i = 0 \/ j = 0
        THEN s
        ELSE SubSeq(s, 1, i - 1) \o ReSubThink(SubSeq(rest, j + 1, Len(rest)))

\* ------------------------------------------------------ json.loads / dumps
\* the result of scanning one JSON value: ok, the value and the index after
\* it, or the decoder's message (the message's line/column suffix is left out)
Ok(val, next) == [ok |-> TRUE, val |-> val, next |-> next, msg |-> ""]
Fail(msg) == [ok |-> FALSE, val |-> PyNone, next |-> 0, msg |-> msg]

\* the JSON whitespace matcher: the first index from i on that holds no blank
RECURSIVE SkipWS(_, _)
SkipWS(s, i) == IF i <= Len(s) /\ s[i] = WS THEN SkipWS(s, i + 1) ELSE i

\* the two-character escape of a double quote inside a JSON string
Escape(text) == [i \in 1..Len(text) |-> IF text[i] = QUOTE THEN ESCQUOTE ELSE text[i]]
Unescape(text) == [i \in 1..Len(text) |-> IF text[i] = ESCQUOTE THEN QUOTE ELSE text[i]]

\* a string literal opening at s[i]
ParseString(s, i) ==
    LET rest == SubSeq(s, i + 1, Len(s))
        j == Find(rest, <<QUOTE>>)
    IN  IF j = 0
        THEN Fail("Unterminated string starting at")
        ELSE Ok(PyStr(Unescape(SubSeq(rest, 1, j - 1))), i + j + 1)

\* a number opening at s[i]: a lone 0, or a run of digits with no leading 0
RECURSIVE DigitRun(_, _, _)
DigitRun(s, i, acc) ==
    IF i <= Len(s) /\ s[i] \in DigitTokens
    THEN DigitRun(s, i + 1, 10 * acc + DigitValue(s[i]))
    ELSE Ok(PyInt(acc), i)
ParseNumber(s, i) == IF s[i] = "0" THEN Ok(PyInt(0), i + 1) ELSE DigitRun(s, i, 0)

RECURSIVE ParseValue(_, _)
RECURSIVE ParseMembers(_, _, _)
RECURSIVE ParseElements(_, _, _)

\* the members of an object, s[k] being where a key must open
ParseMembers(s, k, acc) ==
    IF k > Len(s) \/ s[k] # QUOTE
    THEN Fail("Expecting property name enclosed in double quotes")
    ELSE LET key == ParseString(s, k)
             c == SkipWS(s, key.next)
             item == ParseValue(s, SkipWS(s, c + 1))
             e == SkipWS(s, item.next)
             acc2 == DictSet(acc, key.val.v, item.val)
         IN  IF ~key.ok THEN key
             ELSE IF c > Len(s) \/ s[c] # COLON THEN Fail("Expecting ':' delimiter")
             ELSE IF ~item.ok THEN item
             ELSE IF e <= Len(s) /\ s[e] = RBRACE THEN Ok(acc2, e + 1)
             ELSE IF e <= Len(s) /\ s[e] = COMMA
                  THEN ParseMembers(s, SkipWS(s, e + 1), acc2)
             ELSE Fail("Expecting ',' delimiter")

\* the elements of an array, s[k] being where a value must open
ParseElements(s, k, acc) ==
    LET item == ParseValue(s, k)
        e == SkipWS(s, item.next)
        acc2 == PyList(Append(acc.v, item.val))
    IN  IF ~item.ok THEN item
        ELSE IF e <= Len(s) /\ s[e] = RBRACK THEN Ok(acc2, e + 1)
        ELSE IF e <= Len(s) /\ s[e] = COMMA
             THEN ParseElements(s, SkipWS(s, e + 1), acc2)
        ELSE Fail("Expecting ',' delimiter")

\* one JSON value opening at s[i]
ParseValue(s, i) ==
    IF i > Len(s)
    THEN Fail("Expecting value")
    ELSE LET k == SkipWS(s, i + 1)
         IN  CASE s[i] = QUOTE -> ParseString(s, i)
               [] s[i] = LBRACE ->
                    IF k <= Len(s) /\ s[k] = RBRACE
                    THEN Ok(EmptyDict, k + 1)
                    ELSE ParseMembers(s, k, EmptyDict)
               [] s[i] = LBRACK ->
                    IF k <= Len(s) /\ s[k] = RBRACK
                    THEN Ok(PyList(<<>>), k + 1)
                    ELSE ParseElements(s, k, PyList(<<>>))
               [] s[i] = "true" -> Ok(PyBool(TRUE), i + 1)
               [] s[i] = "false" -> Ok(PyBool(FALSE), i + 1)
               [] s[i] = "null" -> Ok(PyNone, i + 1)
               [] s[i] \in DigitTokens -> ParseNumber(s, i)
               [] OTHER -> Fail("Expecting value")

\* the outcome of a call: a returned value, or a raised exception with its
\* message (for the driver: the source line that raised)
Return(val) == [exc |-> "", val |-> val, msg |-> ""]
Raise(exc, msg) == [exc |-> exc, val |-> PyNone, msg |-> msg]

\* json.loads(s): one value with blanks around it and nothing else
JsonLoads(s) ==
    LET r == ParseValue(s, SkipWS(s, 1))
    IN  IF ~r.ok THEN Raise("JSONDecodeError", r.msg)
        ELSE IF SkipWS(s, r.next) <= Len(s) THEN Raise("JSONDecodeError", "Extra data")
        ELSE Return(r.val)

\* the decimal digits of a natural number
RECURSIVE DumpNat(_)
DumpNat(n) ==
    IF n < 10 THEN <<Digits[n + 1]>> ELSE DumpNat(n \div 10) \o <<Digits[(n % 10) + 1]>>

\* json.dumps(x) with the default separators
RECURSIVE JsonDumps(_)
RECURSIVE DumpMembers(_, _)
RECURSIVE DumpElements(_, _)
DumpMembers(pairs, i) ==
    IF i > Len(pairs) THEN <<>>
    ELSE (IF i > 1 THEN <<COMMA, WS>> ELSE <<>>)
         \o <<QUOTE>> \o Escape(pairs[i][1]) \o <<QUOTE, COLON, WS>>
         \o JsonDumps(pairs[i][2]) \o DumpMembers(pairs, i + 1)
DumpElements(items, i) ==
    IF i > Len(items) THEN <<>>
    ELSE (IF i > 1 THEN <<COMMA, WS>> ELSE <<>>)
         \o JsonDumps(items[i]) \o DumpElements(items, i + 1)
JsonDumps(x) ==
    CASE x.t = "dict" -> <<LBRACE>> \o DumpMembers(x.v, 1) \o <<RBRACE>>
      [] x.t = "list" -> <<LBRACK>> \o DumpElements(x.v, 1) \o <<RBRACK>>
      [] x.t = "str" -> <<QUOTE>> \o Escape(x.v) \o <<QUOTE>>
      [] x.t = "int" -> DumpNat(x.v)
      [] x.t = "bool" -> IF x.v THEN <<"true">> ELSE <<"false">>
      [] OTHER -> <<"null">>

\* ------------------------------------------------------ parse_json_response
FenceJson == <<FENCE, "json">>

\* variant: the test for any fence comes before the test for a json fence
Payload_AnyFenceFirst(response_text) ==
    LET text0 == Strip(response_text)
        text1 == IF Contains(text0, <<THINK_OPEN>>)
                 THEN Strip(ReSubThink(text0))
                 ELSE text0
    IN  IF Contains(text1, <<FENCE>>)
        THEN Strip(Split(Split(text1, <<FENCE>>)[2], <<FENCE>>)[1])
        ELSE IF Contains(text1, FenceJson)
        THEN Strip(Split(Split(text1, FenceJson)[2], <<FENCE>>)[1])
        ELSE text1
\* the text handed to json.loads
Payload(response_text) ==
    LET text0 == Strip(response_text)
        text1 == IF Contains(text0, <<THINK_OPEN>>)
                 THEN Strip(ReSubThink(text0))
                 ELSE text0
    IN  IF Contains(text1, FenceJson)
        THEN Strip(Split(Split(text1, FenceJson)[2], <<FENCE>>)[1])
        ELSE IF Contains(text1, <<FENCE>>)
        THEN Strip(Split(Split(text1, <<FENCE>>)[2], <<FENCE>>)[1])
        ELSE text1

parse_json_response(response_text) == JsonLoads(Payload(response_text))

\* ------------------------------------------------------------- the stages
\* a Python string literal of the source, as a one-word text
Lit(word) == <<word>>

\* each stage takes the text the agent returned (result.final_output); a
\* JSONDecodeError becomes the stage's failure dict, any other exception of
\* the parse would propagate
\* variant: the failure dict is built without its "error" key
generate_file_schema_NoErrorKey(final_output) ==
    LET r == parse_json_response(final_output)
    IN  IF r.exc = "JSONDecodeError"
        THEN Return(PyDict(<<
                <<Lit("raw"), PyStr(final_output)>>,
                <<Lit("files"), PyList(<<>>)>> >>))
        ELSE r

generate_file_schema(final_output) ==
    LET r == parse_json_response(final_output)
    IN  IF r.exc = "JSONDecodeError"
        THEN Return(PyDict(<<
                <<Lit("error"), PyStr(<<"Failed to parse schema: ", r.msg>>)>>,
                <<Lit("raw"), PyStr(final_output)>>,
                <<Lit("files"), PyList(<<>>)>> >>))
        ELSE r

\* variant: the failure dict is built without its "status" key
generate_code_NoStatus(final_output) ==
    LET r == parse_json_response(final_output)
    IN  IF r.exc = "JSONDecodeError"
        THEN Return(PyDict(<<
                <<Lit("error"), PyStr(<<"Failed to parse code: ", r.msg>>)>>,
                <<Lit("raw"), PyStr(final_output)>>,
                <<Lit("files"), EmptyDict>> >>))
        ELSE r

\* variant: the failure dict keeps the unwrapped payload, not the answer
generate_code_PayloadAsRaw(final_output) ==
    LET r == parse_json_response(final_output)
    IN  IF r.exc = "JSONDecodeError"
        THEN Return(PyDict(<<
                <<Lit("error"), PyStr(<<"Failed to parse code: ", r.msg>>)>>,
                <<Lit("raw"), PyStr(Payload(final_output))>>,
                <<Lit("files"), EmptyDict>>,
                <<Lit("status"), PyStr(Lit("error"))>> >>))
        ELSE r

generate_code(final_output) ==
    LET r == parse_json_response(final_output)
    IN  IF r.exc = "JSONDecodeError"
        THEN Return(PyDict(<<
                <<Lit("error"), PyStr(<<"Failed to parse code: ", r.msg>>)>>,
                <<Lit("raw"), PyStr(final_output)>>,
                <<Lit("files"), EmptyDict>>,
                <<Lit("status"), PyStr(Lit("error"))>> >>))
        ELSE r

\* variant: the failure dict is built without its "feedback_for_coder" key
review_code_NoFeedback(final_output) ==
    LET r == parse_json_response(final_output)
    IN  IF r.exc = "JSONDecodeError"
        THEN Return(PyDict(<<
                <<Lit("error"), PyStr(<<"Failed to parse review: ", r.msg>>)>>,
                <<Lit("raw"), PyStr(final_output)>>,
                <<Lit("approved"), PyBool(FALSE)>> >>))
        ELSE r

\* variant: the failure dict says approved
review_code_Approves(final_output) ==
    LET r == parse_json_response(final_output)
    IN  IF r.exc = "JSONDecodeError"
        THEN Return(PyDict(<<
                <<Lit("error"), PyStr(<<"Failed to parse review: ", r.msg>>)>>,
                <<Lit("raw"), PyStr(final_output)>>,
                <<Lit("approved"), PyBool(TRUE)>>,
                <<Lit("feedback_for_coder"),
                  PyStr(Lit("Review parsing failed, please regenerate code"))>> >>))
        ELSE r

review_code(final_output) ==
    LET r == parse_json_response(final_output)
    IN  IF r.exc = "JSONDecodeError"
        THEN Return(PyDict(<<
                <<Lit("error"), PyStr(<<"Failed to parse review: ", r.msg>>)>>,
                <<Lit("raw"), PyStr(final_output)>>,
                <<Lit("approved"), PyBool(FALSE)>>,
                <<Lit("feedback_for_coder"),
                  PyStr(Lit("Review parsing failed, please regenerate code"))>> >>))
        ELSE r

\* variant: the documentation text goes through the fence unwrapping too
generate_documentation_Unwraps(final_output) == Payload(final_output)

generate_documentation(final_output) ==
    LET text == Strip(final_output)
    IN  IF Contains(text, <<THINK_OPEN>>) THEN Strip(ReSubThink(text)) ELSE text

\* ------------------------------------------- operations that can raise
\* `k in x` raises TypeError on a value that is not a container
InRaises(x) == x.t \in {"int", "bool", "None"}
\* `k in x` for a dict (a key), a list (an element), a str (a substring)
InHolds(k, x) ==
    CASE x.t = "dict" -> HasKey(x, k)
      [] x.t = "list" -> \E i \in 1..Len(x.v) : x.v[i] = PyStr(k)
      [] x.t = "str" -> Contains(x.v, k)
      [] OTHER -> FALSE
\* x.get(...) raises AttributeError on anything but a dict
GetRaises(x) == x.t # "dict"
\* len(x) raises TypeError on a value without a length
LenRaises(x) == x.t \in {"int", "bool", "None"}
\* `for f in x: f.get(...)`: iterating a dict yields its keys and a str its
\* characters, neither of which has .get; a list yields its elements
IterGetRaises(x) ==
    CASE x.t = "list" -> \E i \in 1..Len(x.v) : GetRaises(x.v[i])
      [] x.t \in {"dict", "str"} -> Len(x.v) > 0
      [] OTHER -> TRUE
\* x[:n] raises TypeError on anything but a list or a str
SliceRaises(x) == x.t \notin {"list", "str"}

\* ------------------------- the requirements and database-schema stages
\* RequirementsAgent.analyze_requirements and DatabaseAgent.generate_schemas
\* carry their own copy of the extraction: strip, the two fence tests, and
\* json.loads, with no step for reasoning spans
InlinePayload(final_output) ==
    LET response_text == Strip(final_output)
    IN  IF Contains(response_text, FenceJson)
        THEN Strip(Split(Split(response_text, FenceJson)[2], <<FENCE>>)[1])
        ELSE IF Contains(response_text, <<FENCE>>)
        THEN Strip(Split(Split(response_text, <<FENCE>>)[2], <<FENCE>>)[1])
        ELSE response_text
parsed_output(final_output) == JsonLoads(InlinePayload(final_output))

EmptyTechstack ==
    PyDict(<< <<Lit("frontend"), PyList(<<>>)>>, <<Lit("backend"), PyList(<<>>)>>,
              <<Lit("database"), PyList(<<>>)>>, <<Lit("ai"), PyList(<<>>)>>,
              <<Lit("devops"), PyList(<<>>)>> >>)

\* a missing "Features" or "Techstack" is filled in by item assignment,
\* which raises TypeError on a list or a str
analyze_requirements(final_output) ==
    LET r == parsed_output(final_output)
        x == r.val
        withFeatures == IF HasKey(x, Lit("Features")) THEN x
                        ELSE DictSet(x, Lit("Features"), PyList(<<>>))
    IN  IF r.exc = "JSONDecodeError"
        THEN Return(PyDict(<<
                <<Lit("error"), PyStr(<<"Failed to parse JSON: ", r.msg>>)>>,
                <<Lit("raw_output"), PyStr(final_output)>>,
                <<Lit("Features"), PyList(<<>>)>>,
                <<Lit("Techstack"), EmptyTechstack>> >>))
        ELSE IF InRaises(x) THEN Raise("TypeError", "line 120")
        ELSE IF x.t # "dict"
        THEN (IF ~InHolds(Lit("Features"), x) THEN Raise("TypeError", "line 121")
              ELSE IF ~InHolds(Lit("Techstack"), x) THEN Raise("TypeError", "line 123")
              ELSE r)
        ELSE Return(IF HasKey(withFeatures, Lit("Techstack")) THEN withFeatures
                    ELSE DictSet(withFeatures, Lit("Techstack"), EmptyTechstack))

\* a value without "schemas" is wrapped as the value of that key
generate_schemas(final_output) ==
    LET r == parsed_output(final_output)
    IN  IF r.exc = "JSONDecodeError"
        THEN Return(PyDict(<<
                <<Lit("error"), PyStr(<<"Failed to parse JSON: ", r.msg>>)>>,
                <<Lit("raw_output"), PyStr(final_output)>>,
                <<Lit("schemas"), EmptyDict>> >>))
        ELSE IF InRaises(r.val) THEN Raise("TypeError", "line 169")
        ELSE IF ~InHolds(Lit("schemas"), r.val)
        THEN Return(PyDict(<< <<Lit("schemas"), r.val>> >>))
        ELSE r

\* ----------------------------------------------------- generate_ai_service
VARIABLES
    pc,               \* "start", "loop" (at the while test), "review", "done"
    agents,           \* per agent, the answers it may give, see SchemaAnswers
    max_iterations,   \* the ceiling argument
    verbose,          \* the verbose argument
    file_schema,
    current_code,
    review_feedback,
    iteration,
    approved,
    code_result,
    review_result,
    outcome,          \* what generate_ai_service returned or raised
    calls,            \* the stage calls made so far, see Call
    sent,             \* the arguments of the latest stage call
    sched,            \* two concurrent runs: which one is executing, the
                      \* locals of the other, the answers each has received
    response_text,    \* extractor runs: the text under extraction
    source_value,     \* extractor runs: the value the text was dumped from
    extracted,        \* extractor runs: the outcome of parse_json_response
    documented,       \* extractor runs: what generate_documentation returns
    tool,             \* run_container: "idle", "polling", "returned"
    ports_dict,       \* run_container: the requested ports, None when not given
    port_mappings,
    container_ports,  \* run_container: the Ports the last reload showed
    reloads,          \* run_container: the calls of container.reload() so far
    sleeps,           \* run_container: the calls of time.sleep(0.5) so far
    returned          \* run_container: the status and port_mappings returned

vars == <<pc, agents, max_iterations, verbose, file_schema, current_code,
          review_feedback, iteration, approved, code_result, review_result,
          outcome, calls, sent, sched, response_text, source_value, extracted,
          documented, tool, ports_dict, port_mappings, container_ports, reloads,
          sleeps, returned>>
runVars == <<pc, agents, max_iterations, verbose, file_schema, current_code,
             review_feedback, iteration, approved, code_result, review_result,
             outcome, calls, sent, sched>>
extractVars == <<response_text, source_value, extracted, documented>>
portVars == <<tool, ports_dict, port_mappings, container_ports, reloads, sleeps,
              returned>>

\* no outcome yet / no value yet
Pending == [exc |-> "pending", val |-> PyNone, msg |-> ""]
\* a single run: no other run to switch to
Single == [running |-> 0, parked |-> <<>>, heard |-> <<>>]
NoCall == [stage |-> "none", schema |-> PyNone, code |-> PyNone, feedback |-> PyNone]

\* the exception of lines 448-456, "" when none is raised
SchemaCheckFault(fs, vb) ==
    IF InRaises(fs) THEN "TypeError"
    ELSE IF InHolds(Lit("error"), fs)
    THEN (IF vb /\ fs.t # "dict" THEN "TypeError" ELSE "")
    ELSE IF ~vb THEN ""
    ELSE IF GetRaises(fs) THEN "AttributeError"
    ELSE LET files == DictGet(fs, Lit("files"), PyList(<<>>))
         IN  IF LenRaises(files) THEN "TypeError"
             ELSE IF IterGetRaises(files) THEN "AttributeError"
             ELSE ""

\* the test of line 483 raises / holds
CodeFailedTestFault(cr) ==
    IF InRaises(cr) THEN "TypeError"
    ELSE IF InHolds(Lit("error"), cr) /\ GetRaises(cr) THEN "AttributeError"
    ELSE ""
\* variant: the status is compared with another word
CodeFailedTest_WrongStatus(cr) ==
    /\ InHolds(Lit("error"), cr)
    /\ DictGet(cr, Lit("status"), PyNone) = PyStr(Lit("failed"))
CodeFailedTest(cr) ==
    /\ InHolds(Lit("error"), cr)
    /\ DictGet(cr, Lit("status"), PyNone) = PyStr(Lit("error"))

\* the exception of the verbose report of lines 506-516, "" when none
ReviewReportFault(rr, appr) ==
    LET issues == DictGet(rr, Lit("issues"), PyList(<<>>))
        shown == IF Len(issues.v) < 3 THEN Len(issues.v) ELSE 3
    IN  IF Truthy(appr) \/ ~Truthy(issues) THEN ""
        ELSE IF LenRaises(issues) \/ SliceRaises(issues) THEN "TypeError"
        ELSE IF issues.t = "str" THEN "AttributeError"
        ELSE IF \E i \in 1..shown : GetRaises(issues.v[i]) THEN "AttributeError"
        ELSE IF \E i \in 1..shown :
                    SliceRaises(DictGet(issues.v[i], Lit("issue"), EmptyStr))
             THEN "TypeError"
        ELSE ""

\* the while test of line 464
\* variant: the ceiling is compared with <=
LoopTest_OffByOne == ~Truthy(approved) /\ iteration <= max_iterations
LoopTest == ~Truthy(approved) /\ iteration < max_iterations

Finish(out) ==
    /\ pc' = "done"
    /\ outcome' = out

\* --------------------------------------------- what the agents may answer
\* an answer wrapped in a json-tagged fenced block / led by a reasoning span
Fenced(text) == <<FENCE, "json", WS>> \o text \o <<WS, FENCE>>
Thinking(text) == <<THINK_OPEN, "hmm", THINK_CLOSE, WS>> \o text
Garbage == <<"Sorry", WS, "I", WS, "cannot">>

SchemaOk ==
    PyDict(<< <<Lit("project_name"), PyStr(Lit("svc"))>>,
              <<Lit("files"), PyList(<<PyDict(<< <<Lit("path"), PyStr(Lit("main"))>> >>)>>)>> >>)
SchemaResponses ==
    { JsonDumps(SchemaOk),
      Thinking(Fenced(JsonDumps(SchemaOk))),
      Garbage,
      JsonDumps(PyDict(<< <<Lit("error"), PyStr(Lit("quota"))>> >>)),
      JsonDumps(PyList(<<>>)),
      JsonDumps(PyInt(1)),
      JsonDumps(PyStr(<<"an", WS, "error">>)),
      JsonDumps(PyDict(<< <<Lit("files"), PyInt(1)>> >>)) }

CodeMain == PyDict(<< <<Lit("main"), PyStr(Lit("code"))>> >>)
CodeApp ==
    PyDict(<< <<Lit("app"), PyStr(Lit("code2"))>>,
              <<Lit("documentation.md"), PyStr(Lit("old"))>> >>)
CodeReadme == PyDict(<< <<Lit("README"), PyStr(<<FENCE, "pip", FENCE>>)>> >>)
CodeAnswer(files) ==
    PyDict(<< <<Lit("files"), files>>, <<Lit("status"), PyStr(Lit("success"))>> >>)
CodeResponses ==
    { JsonDumps(CodeAnswer(CodeMain)),
      Fenced(JsonDumps(CodeAnswer(CodeApp))),
      JsonDumps(CodeAnswer(CodeReadme)),
      Garbage,
      JsonDumps(PyDict(<< <<Lit("status"), PyStr(Lit("success"))>> >>)),
      JsonDumps(PyDict(<< <<Lit("error"), PyStr(Lit("x"))>>,
                          <<Lit("status"), PyStr(Lit("error"))>> >>)),
      JsonDumps(PyList(<<>>)),
      JsonDumps(PyInt(1)),
      JsonDumps(CodeAnswer(PyList(<<PyStr(Lit("main"))>>))),
      JsonDumps(CodeAnswer(PyNone)) }

ReviewResponses ==
    { JsonDumps(PyDict(<< <<Lit("approved"), PyBool(TRUE)>> >>)),
      JsonDumps(PyDict(<< <<Lit("approved"), PyBool(FALSE)>>,
                          <<Lit("feedback_for_coder"), PyStr(<<"add", WS, "tests">>)>> >>)),
      Thinking(JsonDumps(PyDict(<< <<Lit("approved"), PyBool(TRUE)>>,
                          <<Lit("feedback_for_coder"), PyStr(Lit("nice"))>> >>))),
      Garbage,
      JsonDumps(PyDict(<< <<Lit("approved"), PyStr(Lit("false"))>> >>)),
      JsonDumps(PyDict(<< <<Lit("approved"), PyNone>> >>)),
      JsonDumps(EmptyDict),
      JsonDumps(PyList(<<>>)),
      JsonDumps(PyDict(<< <<Lit("approved"), PyBool(FALSE)>>,
                          <<Lit("issues"), PyList(<<PyInt(1)>>)>> >>)) }

DocResponses ==
    { <<"Docs">>,
      <<>>,
      <<WS>>,
      <<THINK_OPEN, "plan", THINK_CLOSE, WS, "Docs", WS, FENCE, "code", FENCE, WS>> }

\* the answers of the inference layer with what each stage function makes
\* of them: whether the answer parsed, and the value the stage returns
SchemaAnswers ==
    {[parsed |-> parse_json_response(final_output).exc = "",
      result |-> generate_file_schema(final_output).val] : final_output \in SchemaResponses}
CodeAnswers ==
    {[parsed |-> parse_json_response(final_output).exc = "",
      result |-> generate_code(final_output).val] : final_output \in CodeResponses}
ReviewAnswers ==
    {[parsed |-> parse_json_response(final_output).exc = "",
      result |-> review_code(final_output).val] : final_output \in ReviewResponses}
Documentations == {generate_documentation(final_output) : final_output \in DocResponses}

\* -------------------------------------------------------------- the steps
\* a record of one stage call: the stage, the loop counter at the call,
\* whether the answer parsed as JSON, and what the driver made of it
\* (schema: the run goes on; code: the bundle was replaced; review: the
\* approval value; None when the driver raised first)
Call(stage, iter, parsed, verdict) ==
    [stage |-> stage, iter |-> iter, parsed |-> parsed, verdict |-> verdict]

\* lines 437-462: the schema stage, its failure test, the loop's variables
SchemaStep(parsed, fs, fault) ==
    /\ pc = "start"
    /\ sent' = [stage |-> "schema", schema |-> PyNone, code |-> PyNone,
                feedback |-> PyNone]
    /\ file_schema' = fs
    /\ IF fault # ""
       THEN /\ Finish(Raise(fault, "lines 448-456"))
            /\ calls' = Append(calls, Call("schema", 0, parsed, PyNone))
            /\ UNCHANGED <<current_code, review_feedback, iteration, approved>>
       ELSE IF InHolds(Lit("error"), fs)
       THEN /\ Finish(Return(PyDict(<<
                    <<Lit("error"), PyStr(Lit("Schema generation failed"))>>,
                    <<Lit("details"), fs>> >>)))
            /\ calls' = Append(calls, Call("schema", 0, parsed, PyBool(FALSE)))
            /\ UNCHANGED <<current_code, review_feedback, iteration, approved>>
       ELSE /\ pc' = "loop"
            /\ calls' = Append(calls, Call("schema", 0, parsed, PyBool(TRUE)))
            /\ current_code' = EmptyDict
            /\ review_feedback' = EmptyStr
            /\ iteration' = 0
            /\ approved' = PyBool(FALSE)
            /\ UNCHANGED outcome
    /\ UNCHANGED <<agents, max_iterations, verbose, code_result, review_result>>
    /\ UNCHANGED <<extractVars, portVars>>

\* variant: the driver does not keep what the schema stage returned
SchemaStage_DropsResult(answer) ==
    SchemaStep(answer.parsed, EmptyDict, SchemaCheckFault(EmptyDict, verbose))

SchemaStage(answer) ==
    SchemaStep(answer.parsed, answer.result, SchemaCheckFault(answer.result, verbose))

\* lines 464-491: the while test holds, the counter, the code stage, the
\* failure test, the replacement of the bundle
CodeStep(parsed, cr, fault, files) ==
    /\ pc = "loop"
    /\ LoopTest
    /\ iteration' = iteration + 1
    /\ sent' = [stage |-> "code", schema |-> file_schema,
                code |-> current_code, feedback |-> review_feedback]
    /\ code_result' = cr
    /\ IF fault # ""
       THEN /\ Finish(Raise(fault, "line 483"))
            /\ calls' = Append(calls, Call("code", iteration + 1, parsed, PyNone))
            /\ UNCHANGED current_code
       ELSE IF CodeFailedTest(cr)
       THEN /\ pc' = "loop"
            /\ calls' = Append(calls, Call("code", iteration + 1, parsed, PyBool(FALSE)))
            /\ UNCHANGED <<current_code, outcome>>
       ELSE IF GetRaises(cr)
       THEN /\ Finish(Raise("AttributeError", "line 488"))
            /\ calls' = Append(calls, Call("code", iteration + 1, parsed, PyNone))
            /\ UNCHANGED current_code
       ELSE /\ current_code' = files
            /\ calls' = Append(calls, Call("code", iteration + 1, parsed, PyBool(TRUE)))
            /\ IF verbose /\ LenRaises(files)
               THEN Finish(Raise("TypeError", "line 491"))
               ELSE pc' = "review" /\ UNCHANGED outcome
    /\ UNCHANGED <<agents, max_iterations, verbose, file_schema, review_feedback,
                   approved, review_result>>
    /\ UNCHANGED <<extractVars, portVars>>

\* variant: the new files are merged into the bundle held so far
CodeStage_Merge(answer) ==
    CodeStep(answer.parsed, answer.result, CodeFailedTestFault(answer.result),
             LET new == DictGet(answer.result, Lit("files"), EmptyDict)
             IN  IF new.t = "dict" /\ current_code.t = "dict"
                 THEN PyDict(SelectSeq(current_code.v, LAMBDA p : ~HasKey(new, p[1]))
                             \o new.v)
                 ELSE new)

CodeStage(answer) ==
    CodeStep(answer.parsed, answer.result, CodeFailedTestFault(answer.result),
             DictGet(answer.result, Lit("files"), EmptyDict))

\* lines 493-516: the review stage, the approval flag, the feedback
ReviewStep(parsed, rr, appr) ==
    /\ pc = "review"
    /\ sent' = [stage |-> "review", schema |-> file_schema,
                code |-> current_code, feedback |-> PyNone]
    /\ review_result' = rr
    /\ IF GetRaises(rr)
       THEN /\ Finish(Raise("AttributeError", "line 503"))
            /\ calls' = Append(calls, Call("review", iteration, parsed, PyNone))
            /\ UNCHANGED <<approved, review_feedback>>
       ELSE /\ approved' = appr
            /\ review_feedback' = DictGet(rr, Lit("feedback_for_coder"), EmptyStr)
            /\ calls' = Append(calls, Call("review", iteration, parsed, appr))
            /\ IF verbose /\ ReviewReportFault(rr, appr) # ""
               THEN Finish(Raise(ReviewReportFault(rr, appr), "lines 512-516"))
               ELSE pc' = "loop" /\ UNCHANGED outcome
    /\ UNCHANGED <<agents, max_iterations, verbose, file_schema, current_code,
                   iteration, code_result>>
    /\ UNCHANGED <<extractVars, portVars>>

ReviewStage(answer) ==
    ReviewStep(answer.parsed, answer.result,
               DictGet(answer.result, Lit("approved"), PyBool(FALSE)))

\* lines 464, 518-557: the while test fails, the documentation stage, the
\* injection of its text, the result
DocStep(name, files) ==
    /\ pc = "loop"
    /\ ~LoopTest
    /\ IF GetRaises(file_schema)
       THEN /\ Finish(Raise("AttributeError", "line 529"))
            /\ UNCHANGED <<current_code, calls, sent>>
       ELSE /\ calls' = Append(calls, Call("docs", iteration, TRUE, PyNone))
            /\ sent' = [stage |-> "docs", schema |-> file_schema,
                        code |-> current_code, feedback |-> PyNone]
            /\ IF current_code.t # "dict"
               THEN /\ Finish(Raise("TypeError", "line 541"))
                    /\ UNCHANGED current_code
               ELSE /\ current_code' = files
                    /\ Finish(Return(PyDict(<<
                            <<Lit("files"), files>>,
                            <<Lit("schema"), file_schema>>,
                            <<Lit("iterations"), PyInt(iteration)>>,
                            <<Lit("approved"), approved>>,
                            <<Lit("project_name"), name>> >>)))
    /\ UNCHANGED <<agents, max_iterations, verbose, file_schema, review_feedback,
                   iteration, approved, code_result, review_result>>
    /\ UNCHANGED <<extractVars, portVars>>

\* variant: an entry the bundle already has at the key is kept
DocStage_KeepsEntry(documentation) ==
    DocStep(DictGet(file_schema, Lit("project_name"), PyStr(Lit("ai_service"))),
            IF HasKey(current_code, Lit("documentation.md"))
            THEN current_code
            ELSE DictSet(current_code, Lit("documentation.md"),
                         PyStr(documentation)))
DocStage(documentation) ==
    DocStep(DictGet(file_schema, Lit("project_name"), PyStr(Lit("ai_service"))),
            DictSet(current_code, Lit("documentation.md"),
                    PyStr(documentation)))

\* ------------------------------------------------------------------ bounds
MaxCeiling == 3
MaxTextLen == 4
MaxStrLen == 2
MaxWraps == 2
TwoCeiling == 2

\* ------------------------------------------------- the run's specification
InitRun ==
    /\ pc = "start"
    /\ agents = [file_schema_agent |-> SchemaAnswers,
                 coding_agent |-> CodeAnswers,
                 code_reviewer_agent |-> ReviewAnswers,
                 documentation_agent |-> Documentations]
    /\ file_schema = PyNone
    /\ current_code = PyNone
    /\ review_feedback = PyNone
    /\ iteration = 0
    /\ approved = PyNone
    /\ code_result = PyNone
    /\ review_result = PyNone
    /\ outcome = Pending
    /\ calls = <<>>
    /\ sent = NoCall

InitExtract ==
    /\ response_text = <<>>
    /\ source_value = PyNone
    /\ extracted = Pending
    /\ documented = <<>>

\* run_container has not been called
InitPorts ==
    /\ tool = "idle"
    /\ ports_dict = PyNone
    /\ port_mappings = EmptyDict
    /\ container_ports = EmptyDict
    /\ reloads = 0
    /\ sleeps = 0
    /\ returned = Pending

Init ==
    /\ InitRun
    /\ InitExtract
    /\ InitPorts
    /\ sched = Single
    /\ max_iterations \in -1..MaxCeiling
    /\ verbose \in BOOLEAN

Next ==
    \/ \E answer \in agents.file_schema_agent :
            SchemaStage(answer) /\ UNCHANGED sched
    \/ \E answer \in agents.coding_agent :
            CodeStage(answer) /\ UNCHANGED sched
    \/ \E answer \in agents.code_reviewer_agent :
            ReviewStage(answer) /\ UNCHANGED sched
    \/ \E documentation \in agents.documentation_agent :
            DocStage(documentation) /\ UNCHANGED sched

Spec == Init /\ [][Next]_vars

\* ------------------------------------------- the extractor's specification
\* texts are typed token by token, or dumped from a structured value and
\* then wrapped as an agent wraps its answer
TypedTokens == {LBRACE, RBRACE, QUOTE, FENCE, "json", THINK_OPEN, THINK_CLOSE, WS, "1"}
StrTokens == {"a", WS, QUOTE, FENCE, THINK_OPEN, THINK_CLOSE, LBRACE}
RECURSIVE TextsUpTo(_, _)
TextsUpTo(alphabet, n) ==
    IF n = 0 THEN {<<>>}
    ELSE LET shorter == TextsUpTo(alphabet, n - 1)
         IN  shorter \cup {Append(s, tok) : s \in shorter, tok \in alphabet}
Strings == {PyStr(s) : s \in TextsUpTo(StrTokens, MaxStrLen)}
Values ==
    Strings
    \cup {PyDict(<< <<Lit("k"), x>> >>) : x \in Strings}
    \cup {PyDict(<< <<x.v, PyInt(10)>>, <<Lit("k"), PyBool(TRUE)>> >>) : x \in Strings}
    \cup {PyList(<<x, PyNone>>) : x \in Strings}
    \cup {EmptyDict, PyList(<<>>), PyInt(0), PyInt(7), PyBool(FALSE), PyNone,
          SchemaOk, CodeAnswer(CodeMain), CodeAnswer(CodeReadme)}

Type(tok) ==
    /\ extracted = Pending
    /\ source_value = PyNone
    /\ Len(response_text) < MaxTextLen
    /\ response_text' = Append(response_text, tok)
    /\ UNCHANGED <<source_value, extracted, documented>>
    /\ UNCHANGED runVars
    /\ UNCHANGED portVars

Dump(x) ==
    /\ extracted = Pending
    /\ source_value = PyNone
    /\ response_text = <<>>
    /\ response_text' = JsonDumps(x)
    /\ source_value' = PyList(<<x>>)
    /\ UNCHANGED <<extracted, documented>>
    /\ UNCHANGED runVars
    /\ UNCHANGED portVars

Wrappable ==
    /\ extracted = Pending
    /\ source_value # PyNone
    /\ Len(response_text) - Len(JsonDumps(source_value.v[1])) <= 5 * (MaxWraps - 1)

WrapFence ==
    /\ Wrappable
    /\ response_text' = Fenced(response_text)
    /\ UNCHANGED <<source_value, extracted, documented>>
    /\ UNCHANGED runVars
    /\ UNCHANGED portVars

WrapThink ==
    /\ Wrappable
    /\ response_text' = Thinking(response_text)
    /\ UNCHANGED <<source_value, extracted, documented>>
    /\ UNCHANGED runVars
    /\ UNCHANGED portVars

Extract ==
    /\ extracted = Pending
    /\ extracted' = parse_json_response(response_text)
    /\ documented' = generate_documentation(response_text)
    /\ UNCHANGED <<response_text, source_value>>
    /\ UNCHANGED runVars
    /\ UNCHANGED portVars

InitExtractor ==
    /\ InitRun
    /\ InitExtract
    /\ InitPorts
    /\ sched = Single
    /\ max_iterations = 5
    /\ verbose = TRUE

NextExtract ==
    \/ \E tok \in TypedTokens : Type(tok)
    \/ \E x \in Values : Dump(x)
    \/ WrapFence
    \/ WrapThink
    \/ Extract

SpecExtract == InitExtractor /\ [][NextExtract]_vars

\* ------------------------------------------------------ two concurrent runs
\* Two calls of generate_ai_service run in two threads.  The variables of
\* the run hold the locals of the call that is executing; sched.parked
\* holds the locals of the other call; the agents are module globals and
\* the only objects both calls use.
Frame ==
    [pc |-> pc, max_iterations |-> max_iterations, verbose |-> verbose,
     file_schema |-> file_schema, current_code |-> current_code,
     review_feedback |-> review_feedback, iteration |-> iteration,
     approved |-> approved, code_result |-> code_result,
     review_result |-> review_result, outcome |-> outcome, calls |-> calls,
     sent |-> sent]

\* variant: the bundle is a module global, not a local of the call
Resume_SharedBundle(frame) ==
    /\ pc' = frame.pc
    /\ max_iterations' = frame.max_iterations
    /\ verbose' = frame.verbose
    /\ file_schema' = frame.file_schema
    /\ current_code' = current_code
    /\ review_feedback' = frame.review_feedback
    /\ iteration' = frame.iteration
    /\ approved' = frame.approved
    /\ code_result' = frame.code_result
    /\ review_result' = frame.review_result
    /\ outcome' = frame.outcome
    /\ calls' = frame.calls
    /\ sent' = frame.sent
\* the thread of a call goes on with the locals it had
Resume(frame) ==
    /\ pc' = frame.pc
    /\ max_iterations' = frame.max_iterations
    /\ verbose' = frame.verbose
    /\ file_schema' = frame.file_schema
    /\ current_code' = frame.current_code
    /\ review_feedback' = frame.review_feedback
    /\ iteration' = frame.iteration
    /\ approved' = frame.approved
    /\ code_result' = frame.code_result
    /\ review_result' = frame.review_result
    /\ outcome' = frame.outcome
    /\ calls' = frame.calls
    /\ sent' = frame.sent

\* the scheduler runs the other call, which has steps left
Switch ==
    /\ sched.running \in {1, 2}
    /\ sched.parked.pc # "done"
    /\ Resume(sched.parked)
    /\ sched' = [sched EXCEPT !.running = 3 - sched.running, !.parked = Frame]
    /\ UNCHANGED agents
    /\ UNCHANGED <<extractVars, portVars>>

\* the executing call receives an answer
Hear(answer) ==
    sched' = [sched EXCEPT !.heard[sched.running] = Append(@, answer)]

\* the answers of the two-run specification: schema and code answers that
\* parse to the expected shape or do not parse, boolean verdicts, one
\* documentation text
TwoAgents ==
    [file_schema_agent |->
        {a \in SchemaAnswers : ~a.parsed \/ a.result = SchemaOk},
     coding_agent |->
        {a \in CodeAnswers : ~a.parsed \/ a.result \in {CodeAnswer(CodeMain), CodeAnswer(CodeApp)}},
     code_reviewer_agent |->
        {a \in ReviewAnswers :
            /\ a.parsed
            /\ a.result.t = "dict"
            /\ HasKey(a.result, Lit("approved"))
            /\ Lookup(a.result, Lit("approved")).t = "bool"
            /\ ~HasKey(a.result, Lit("issues"))},
     documentation_agent |-> {d \in Documentations : d = <<"Docs">>}]

InitFrame(N, vb) ==
    [pc |-> "start", max_iterations |-> N, verbose |-> vb,
     file_schema |-> PyNone, current_code |-> PyNone,
     review_feedback |-> PyNone, iteration |-> 0, approved |-> PyNone,
     code_result |-> PyNone, review_result |-> PyNone, outcome |-> Pending,
     calls |-> <<>>, sent |-> NoCall]

InitTwo ==
    /\ InitExtract
    /\ InitPorts
    /\ agents = TwoAgents
    /\ max_iterations \in 1..TwoCeiling
    /\ verbose = FALSE
    /\ pc = "start"
    /\ file_schema = PyNone
    /\ current_code = PyNone
    /\ review_feedback = PyNone
    /\ iteration = 0
    /\ approved = PyNone
    /\ code_result = PyNone
    /\ review_result = PyNone
    /\ outcome = Pending
    /\ calls = <<>>
    /\ sent = NoCall
    /\ \E N \in 1..TwoCeiling :
        sched = [running |-> 1, parked |-> InitFrame(N, FALSE),
                 heard |-> << <<>>, <<>> >>]

NextTwo ==
    \/ \E answer \in agents.file_schema_agent :
            SchemaStage(answer) /\ Hear(answer)
    \/ \E answer \in agents.coding_agent :
            CodeStage(answer) /\ Hear(answer)
    \/ \E answer \in agents.code_reviewer_agent :
            ReviewStage(answer) /\ Hear(answer)
    \/ \E documentation \in agents.documentation_agent :
            DocStage(documentation) /\ Hear(documentation)
    \/ Switch

SpecTwo == InitTwo /\ [][NextTwo]_vars

\* generate_ai_service run alone on the answers h, as far as they go:
\* what it returns or raises, Pending when h ends before it does
RECURSIVE AloneLoop(_, _, _, _, _, _, _)
AloneLoop(N, vb, fs, h, cc, it, ap) ==
    IF ~Truthy(ap) /\ it < N
    THEN IF h = <<>> THEN Pending
         ELSE LET cr == Head(h).result
                  files == DictGet(cr, Lit("files"), EmptyDict)
              IN  IF CodeFailedTestFault(cr) # ""
                  THEN Raise(CodeFailedTestFault(cr), "line 483")
                  ELSE IF CodeFailedTest(cr)
                  THEN AloneLoop(N, vb, fs, Tail(h), cc, it + 1, ap)
                  ELSE IF GetRaises(cr) THEN Raise("AttributeError", "line 488")
                  ELSE IF vb /\ LenRaises(files) THEN Raise("TypeError", "line 491")
                  ELSE IF Len(h) < 2 THEN Pending
                  ELSE LET rr == h[2].result
                           appr == DictGet(rr, Lit("approved"), PyBool(FALSE))
                       IN  IF GetRaises(rr) THEN Raise("AttributeError", "line 503")
                           ELSE IF vb /\ ReviewReportFault(rr, appr) # ""
                           THEN Raise(ReviewReportFault(rr, appr), "lines 512-516")
                           ELSE AloneLoop(N, vb, fs, Tail(Tail(h)), files, it + 1, appr)
    ELSE IF GetRaises(fs) THEN Raise("AttributeError", "line 529")
    ELSE IF h = <<>> THEN Pending
    ELSE IF cc.t # "dict" THEN Raise("TypeError", "line 541")
    ELSE Return(PyDict(<<
            <<Lit("files"), DictSet(cc, Lit("documentation.md"), PyStr(Head(h)))>>,
            <<Lit("schema"), fs>>,
            <<Lit("iterations"), PyInt(it)>>,
            <<Lit("approved"), ap>>,
            <<Lit("project_name"),
              DictGet(fs, Lit("project_name"), PyStr(Lit("ai_service")))>> >>))

Alone(N, vb, h) ==
    IF h = <<>> THEN Pending
    ELSE LET fs == Head(h).result
         IN  IF SchemaCheckFault(fs, vb) # ""
             THEN Raise(SchemaCheckFault(fs, vb), "lines 448-456")
             ELSE IF InHolds(Lit("error"), fs)
             THEN Return(PyDict(<<
                    <<Lit("error"), PyStr(Lit("Schema generation failed"))>>,
                    <<Lit("details"), fs>> >>))
             ELSE AloneLoop(N, vb, fs, Tail(h), EmptyDict, 0, PyBool(FALSE))

\* ------------------------------------------- InfraAgent.run_container
\* The container runtime is the environment: each container.reload() shows
\* whatever Ports the runtime has at that moment, which may gain or lose
\* bindings from one reload to the next.
RetryBudget == 10

Port80 == Lit("80/tcp")
Port443 == Lit("443/tcp")
Port53 == Lit("53/udp")
\* a key that container_ports does not have
Absent == [t |-> "absent", v |-> 0]
Binding(host) ==
    PyList(<<PyDict(<< <<Lit("HostIp"), PyStr(Lit("0.0.0.0"))>>,
                       <<Lit("HostPort"), PyStr(Lit(host))>> >>)>>)
\* what the runtime may show for a port: no key, null, no binding, a binding
PortInfos == {Absent, PyNone, PyList(<<>>), Binding("32768"), Binding("32769")}
Entry(key, info) == IF info = Absent THEN <<>> ELSE << <<key, info>> >>
\* the runtime also shows a port nobody requested
Snapshots ==
    {PyDict(Entry(Port80, a) \o Entry(Port443, b) \o Entry(Port53, Binding("5353"))) :
        a \in PortInfos, b \in PortInfos}
\* the ports argument after line 36: None for an empty string, else the
\* decoded object (a null value asks for a random host port)
PortRequests ==
    {PyNone, EmptyDict,
     PyDict(<< <<Port80, PyNone>> >>),
     PyDict(<< <<Port443, PyInt(8443)>> >>),
     PyDict(<< <<Port80, PyNone>>, <<Port443, PyNone>> >>)}

\* lines 82-83: the test on port_info
Assigned(port_info) == Truthy(port_info) /\ Len(port_info.v) > 0
\* variant: the mapping is rebuilt from nothing at every attempt
Collect_Fresh(requested, i, mappings, shown) ==
    LET found == SelectSeq(requested.v,
                    LAMBDA p : Assigned(DictGet(shown, p[1], PyNone)))
    IN  PyDict([j \in 1..Len(found) |->
                <<found[j][1],
                  Lookup(Lookup(shown, found[j][1]).v[1], Lit("HostPort"))>>])
\* lines 81-86: the for loop over the requested keys, from the i-th on
RECURSIVE Collect(_, _, _, _)
Collect(requested, i, mappings, shown) ==
    IF i > Len(requested.v) THEN mappings
    ELSE LET port_key == requested.v[i][1]
             port_info == DictGet(shown, port_key, PyNone)
         IN  Collect(requested, i + 1,
                     IF Assigned(port_info)
                     THEN DictSet(mappings, port_key,
                                  Lookup(port_info.v[1], Lit("HostPort")))
                     ELSE mappings,
                     shown)
\* lines 79-86: all_ports_assigned after the for loop
all_ports_assigned(requested, shown) ==
    \A i \in 1..Len(requested.v) :
        Assigned(DictGet(shown, requested.v[i][1], PyNone))

\* lines 98-104: the value returned (the container's id, name, project and
\* image are left out)
Success(mappings) ==
    Return(PyDict(<< <<Lit("status"), PyStr(Lit("success"))>>,
                     <<Lit("port_mappings"), mappings>> >>))

\* lines 33-76: the container is started; without requested ports the
\* call returns at once
StartContainer(requested) ==
    /\ tool = "idle"
    /\ ports_dict' = requested
    /\ port_mappings' = EmptyDict
    /\ IF Truthy(requested)
       THEN tool' = "polling" /\ UNCHANGED returned
       ELSE tool' = "returned" /\ returned' = Success(EmptyDict)
    /\ UNCHANGED <<container_ports, reloads, sleeps>>
    /\ UNCHANGED runVars
    /\ UNCHANGED extractVars

\* variant: range(11)
LoopEnds_OneMore(n, all) == all \/ n = RetryBudget + 1
\* lines 77, 88-89: the loop ends after attempt n
LoopEnds(n, all) == all \/ n = RetryBudget

\* lines 77-104: one attempt of the loop, and the return when the loop ends
PollAttempt(shown) ==
    LET all == all_ports_assigned(ports_dict, shown)
        mappings == Collect(ports_dict, 1, port_mappings, shown)
    IN  /\ tool = "polling"
        /\ reloads' = reloads + 1
        /\ container_ports' = shown
        /\ port_mappings' = mappings
        /\ sleeps' = IF all THEN sleeps ELSE sleeps + 1
        /\ IF LoopEnds(reloads + 1, all)
           THEN tool' = "returned" /\ returned' = Success(mappings)
           ELSE tool' = "polling" /\ UNCHANGED returned
        /\ UNCHANGED ports_dict
        /\ UNCHANGED runVars
        /\ UNCHANGED extractVars

InitContainer ==
    /\ InitRun
    /\ InitExtract
    /\ InitPorts
    /\ sched = Single
    /\ max_iterations = 5
    /\ verbose = TRUE

NextContainer ==
    \/ \E requested \in PortRequests : StartContainer(requested)
    \/ \E shown \in Snapshots : PollAttempt(shown)

SpecContainer == InitContainer /\ [][NextContainer]_vars
\* the tool's thread keeps running: a reload returns and the loop goes on
FairContainer == SpecContainer /\ WF_vars(NextContainer)

\* the run under the scheduling of a single thread of control: a stage call
\* returns, and the driver takes its next step
FairSpec == Spec /\ WF_vars(Next)

\* ------------------------------------------------------------ observations
CallsOf(stage) == {i \in 1..Len(calls) : calls[i].stage = stage}
CodeCalls == Cardinality(CallsOf("code"))
LastCall == calls[Len(calls)]
\* line 462 has run: the loop was entered
LoopEntered == approved # PyNone
Raised == outcome.exc \notin {"", "pending"}
\* the driver returned the result of lines 551-557 / the error of line 451
IsRunResult == outcome.exc = "" /\ HasKey(outcome.val, Lit("files"))
IsErrorResult == outcome.exc = "" /\ HasKey(outcome.val, Lit("error"))
Result(key) == Lookup(outcome.val, Lit(key))
\* the run ended at or after the while test failed
LoopExited ==
    \/ pc = "loop" /\ ~LoopTest
    \/ IsRunResult
    \/ Raised /\ outcome.msg \in {"line 529", "line 541"}
ApprovingReview(i) == calls[i].stage = "review" /\ calls[i].verdict = PyBool(TRUE)
UnparsedCode(i) == calls[i].stage = "code" /\ ~calls[i].parsed
DocKey == Lit("documentation.md")

\* ------------------------------------------------------------------ claims
\* C1: for every ceiling N >= 1 and every sequence of stage outcomes the run
\* terminates, and the code stage is invoked at most N times.
C1_Termination ==
    /\ <>(pc = "done")
    /\ [](max_iterations >= 1 => CodeCalls <= max_iterations)
C1_Witness ==
    /\ pc = "done"
    /\ IsRunResult
    /\ max_iterations = MaxCeiling
    /\ CodeCalls = max_iterations
    /\ ~Truthy(approved)

\* C2: if a review returns approved = true at iteration k <= N, the loop
\* stops at k: no code or review call follows that review, and the run ends
\* with a RunResult that has iterations = k and approved = true.
C2_EarlyExit ==
    \A i \in 1..Len(calls) :
        ApprovingReview(i) =>
            /\ \A j \in (i + 1)..Len(calls) : calls[j].stage = "docs"
            /\ calls[i].iter <= max_iterations
            /\ iteration = calls[i].iter
            /\ pc = "done" =>
                /\ IsRunResult
                /\ Result("iterations") = PyInt(calls[i].iter)
                /\ Result("approved") = PyBool(TRUE)

\* C3: a code stage whose answer fails to parse leaves the bundle as it was
\* and goes back to the while test, and no review call is ever made for that
\* iteration.
C3_SkipReview ==
    /\ [][(/\ Len(calls') = Len(calls) + 1
            /\ calls'[Len(calls')].stage = "code"
            /\ ~calls'[Len(calls')].parsed)
            => (current_code' = current_code /\ pc' = "loop")]_vars
    /\ [](\A i \in 1..Len(calls) : UnparsedCode(i) =>
            \A j \in 1..Len(calls) :
                ~(calls[j].stage = "review" /\ calls[j].iter = calls[i].iter))
C3_Witness ==
    /\ pc = "loop"
    /\ Len(calls) >= 3
    /\ UnparsedCode(Len(calls))
    /\ LastCall.iter >= 2
    /\ current_code = CodeMain

\* C4: when every code answer is unparseable, the loop ends after exactly N
\* iterations (N >= 1) with approved = false, no review call and an empty
\* bundle.
C4_AllUnparseable ==
    (/\ max_iterations >= 1
     /\ LoopEntered
     /\ LoopExited
     /\ \A i \in CallsOf("code") : ~calls[i].parsed)
    => /\ iteration = max_iterations
       /\ CodeCalls = max_iterations
       /\ approved = PyBool(FALSE)
       /\ CallsOf("review") = {}
       /\ current_code \in {EmptyDict} \cup
            {PyDict(<< <<DocKey, PyStr(d)>> >>) : d \in agents.documentation_agent}
       /\ IsRunResult => Result("approved") = PyBool(FALSE)
C4_Witness ==
    /\ IsRunResult
    /\ max_iterations = MaxCeiling
    /\ CodeCalls = max_iterations
    /\ \A i \in CallsOf("code") : ~calls[i].parsed

\* C5: a schema answer that fails to parse ends the run at once: the driver
\* returns the error value of line 451 carrying the stage's failure dict,
\* and the schema call is the only stage call of the run.
C5_SchemaShortCircuit ==
    (Len(calls) >= 1 /\ ~calls[1].parsed)
    => /\ pc = "done"
       /\ Len(calls) = 1
       /\ calls[1].stage = "schema"
       /\ HasKey(file_schema, Lit("raw"))
       /\ outcome = Return(PyDict(<<
                <<Lit("error"), PyStr(Lit("Schema generation failed"))>>,
                <<Lit("details"), file_schema>> >>))
C5_Witness ==
    /\ pc = "done"
    /\ verbose
    /\ Len(calls) = 1
    /\ ~calls[1].parsed
    /\ IsErrorResult

\* C6: for every answer of every stage the driver returns a RunResult or an
\* error value; no exception leaves generate_ai_service.
C6_NoFault == pc = "done" => (IsRunResult \/ IsErrorResult)

\* C7: parse_json_response is total: for every text it returns a structured
\* value or a failure value carrying the text, and never ends in a fault.
C7_Total == extracted # Pending => extracted.exc = ""

\* C8: extracting the plain dump of a structured value gives the value back.
C8_RoundTrip ==
    (/\ extracted # Pending
     /\ source_value # PyNone
     /\ response_text = JsonDumps(source_value.v[1]))
    => extracted = Return(source_value.v[1])

\* C9: when the loop ends at the ceiling without approval the driver returns
\* a RunResult with approved = false, iterations = N and the bundle of the
\* last successful code stage plus the documentation entry.
C9_CeilingResult ==
    (/\ pc = "done"
     /\ LoopEntered
     /\ LoopExited
     /\ max_iterations >= 1
     /\ iteration = max_iterations
     /\ \A i \in 1..Len(calls) : ~ApprovingReview(i))
    => /\ IsRunResult
       /\ Result("approved") = PyBool(FALSE)
       /\ Result("iterations") = PyInt(max_iterations)
       /\ Result("files") = DictSet(sent.code, DocKey, Lookup(Result("files"), DocKey))

\* C10: RunResult.approved is true only if the last review of the run
\* returned approved = true, and it is false whenever the loop ended at the
\* ceiling with no approving review.
C10_ApprovalTruthful ==
    IsRunResult =>
        /\ Truthy(Result("approved")) =>
            \E i \in CallsOf("review") :
                /\ ApprovingReview(i)
                /\ \A j \in CallsOf("review") : j <= i
        /\ (iteration = max_iterations /\ \A i \in 1..Len(calls) : ~ApprovingReview(i))
            => Result("approved") = PyBool(FALSE)

\* a step that made a call of the stage, with the answer parsed or not
StageStep(stage) ==
    /\ Len(calls') = Len(calls) + 1
    /\ calls'[Len(calls')].stage = stage
ReviewFailureFeedback == PyStr(Lit("Review parsing failed, please regenerate code"))

\* C11: an approving verdict is the only way the loop ends before the
\* ceiling: a RunResult with iterations < N (N >= 1) has approved = true.
C11_OnlyApprovalEndsEarly ==
    (/\ IsRunResult
     /\ max_iterations >= 1
     /\ Result("iterations").v < max_iterations)
    => Result("approved") = PyBool(TRUE)

C13_ReviewFailure ==
    [][(StageStep("review") /\ ~calls'[Len(calls')].parsed) =>
        /\ approved' = PyBool(FALSE)
        /\ current_code' = current_code
        /\ current_code' = DictGet(code_result', Lit("files"), EmptyDict)
        /\ pc' = "loop"
        /\ outcome' = Pending
        /\ LoopTest' <=> iteration' < max_iterations']_vars
C13_Witness ==
    /\ pc = "loop"
    /\ Len(calls) >= 1
    /\ LastCall.stage = "review"
    /\ ~LastCall.parsed
    /\ LoopTest
    /\ current_code = CodeMain

\* C14: in every run whose schema stage succeeded the documentation stage
\* is called exactly once, after the loop, with the bundle held at loop
\* exit.
C14_DocsOnce ==
    (pc = "done" /\ LoopEntered)
    => /\ Cardinality(CallsOf("docs")) = 1
       /\ LastCall.stage = "docs"
       /\ sent.stage = "docs"
       /\ ~LoopTest

\* C15: the RunResult's files hold a non-empty documentation entry, whatever
\* text the documentation stage returned.
C15_DocEntryNonEmpty ==
    IsRunResult =>
        /\ HasKey(Result("files"), DocKey)
        /\ Truthy(Lookup(Result("files"), DocKey))

\* C16: the schema stage is called exactly once, before every other stage;
\* what it returned is what every code, review and documentation call is
\* given and what RunResult.schema holds.
C16_SchemaOnce ==
    /\ [](Len(calls) >= 1 =>
            /\ CallsOf("schema") = {1}
            /\ \E answer \in agents.file_schema_agent :
                /\ answer.result = file_schema
                /\ answer.parsed = calls[1].parsed
            /\ sent.stage \in {"code", "review", "docs"} => sent.schema = file_schema
            /\ IsRunResult => Result("schema") = file_schema)
    /\ [][pc # "start" => file_schema' = file_schema]_vars
C16_Witness ==
    /\ IsRunResult
    /\ CallsOf("review") # {}
    /\ CodeCalls >= 2
    /\ Result("schema") = SchemaOk

\* C17: the counter starts at 0, grows by exactly 1 with each code stage
\* call and not otherwise, never exceeds the ceiling N >= 1, and
\* RunResult.iterations is the number of code stage calls of the run.
C17_Counter ==
    /\ [][IF StageStep("code") THEN iteration' = iteration + 1
          ELSE iteration' = iteration]_vars
    /\ [](/\ pc = "start" => iteration = 0
          /\ iteration = CodeCalls
          /\ max_iterations >= 1 => iteration <= max_iterations
          /\ IsRunResult => Result("iterations") = PyInt(CodeCalls))
C17_Witness ==
    /\ IsRunResult
    /\ max_iterations = MaxCeiling
    /\ Result("iterations") = PyInt(2)
    /\ CodeCalls = 2

\* C18: a code stage that did not fail replaces the bundle by the mapping
\* it generated: no file of the bundle held before survives unless the new
\* mapping has it.
C18_Replaced ==
    [][(StageStep("code") /\ calls'[Len(calls')].verdict = PyBool(TRUE)) =>
        /\ current_code' = DictGet(code_result', Lit("files"), EmptyDict)
        /\ (current_code.t = "dict" /\ current_code'.t = "dict") =>
            \A k \in Keys(current_code) :
                HasKey(current_code', k) =>
                    /\ HasKey(Lookup(code_result', Lit("files")), k)
                    /\ Lookup(current_code', k) =
                        Lookup(Lookup(code_result', Lit("files")), k)]_vars
C18_Witness ==
    /\ pc = "review"
    /\ sent.stage = "code"
    /\ sent.code = CodeMain
    /\ current_code = CodeApp

\* C19: when the schema, code or review stage fails to parse an answer, the
\* value it returns carries the decoder's message and the whole answer as
\* it was received, before reasoning spans and fences were removed.
StageFailure(r, prefix) ==
    /\ r.exc = ""
    /\ r.val.t = "dict"
    /\ HasKey(r.val, Lit("error")) /\ HasKey(r.val, Lit("raw"))
    /\ Lookup(r.val, Lit("error")) = PyStr(<<prefix, extracted.msg>>)
    /\ Lookup(r.val, Lit("raw")) = PyStr(response_text)
C19_FailureCarriesRaw ==
    extracted.exc = "JSONDecodeError" =>
        /\ StageFailure(generate_file_schema(response_text), "Failed to parse schema: ")
        /\ StageFailure(generate_code(response_text), "Failed to parse code: ")
        /\ StageFailure(review_code(response_text), "Failed to parse review: ")
C19_Witness ==
    /\ extracted.exc = "JSONDecodeError"
    /\ Payload(response_text) # response_text
    /\ Contains(response_text, <<FENCE>>)

\* the locals of run r of the two concurrent runs
FrameOf(r) == IF sched.running = r THEN Frame ELSE sched.parked

\* C20: two concurrent runs, their stage calls interleaved in any order, do
\* not interfere: a step of one run leaves the locals of the other and the
\* shared agents as they are, and at every moment what each run has
\* returned or raised is what it returns or raises when run alone on the
\* answers it has received.
C20_NoInterference ==
    /\ [][/\ agents' = agents
          /\ sched'.running = sched.running => sched'.parked = sched.parked]_vars
    /\ [](\A r \in {1, 2} :
            FrameOf(r).outcome =
                Alone(FrameOf(r).max_iterations, FrameOf(r).verbose, sched.heard[r]))
C20_Witness ==
    /\ sched.running = 1
    /\ IsRunResult
    /\ Truthy(approved)
    /\ current_code # sched.parked.current_code
    /\ sched.parked.pc = "review"
    /\ sched.parked.iteration = 2
    /\ Len(sched.heard[2]) >= 4

\* C21: the stage calls of a run form one sequence in a fixed order: the
\* schema call is the first and only the first; every code call carries the
\* counter of the call before it plus one and follows the schema call, a
\* review call or a failed code call; a review call comes only right after
\* a code call of the same iteration whose answer parsed and was taken as a
\* success; the documentation call is the last call of the run; and the call
\* most recently sent is the last of the sequence.
C21_Sequential ==
    LET n == Len(calls)
    IN  /\ \A i \in 1..n : (calls[i].stage = "schema") <=> (i = 1)
        /\ \A i \in 1..n : calls[i].stage = "docs" => (i = n /\ pc = "done")
        /\ \A i \in 2..n :
            /\ calls[i].stage = "review" =>
                /\ calls[i - 1].stage = "code"
                /\ calls[i - 1].iter = calls[i].iter
                /\ calls[i - 1].parsed
                /\ calls[i - 1].verdict = PyBool(TRUE)
            /\ calls[i].stage = "code" =>
                /\ calls[i - 1].stage \in {"schema", "code", "review"}
                /\ calls[i].iter = calls[i - 1].iter + 1
            /\ calls[i - 1].stage = "code" /\ calls[i - 1].verdict = PyBool(TRUE) =>
                calls[i].stage = "review"
            /\ calls[i - 1].stage = "schema" => calls[i - 1].verdict = PyBool(TRUE)
        /\ sent.stage = (IF n = 0 THEN "none" ELSE calls[n].stage)
C21_Witness ==
    /\ IsRunResult
    /\ Len(calls) = 6
    /\ UnparsedCode(2)
    /\ calls[3].stage = "code"
    /\ calls[4].stage = "review" /\ calls[4].verdict = PyBool(FALSE)
    /\ UnparsedCode(5)
    /\ calls[6].stage = "docs"

\* C22: the documentation text is stored under "documentation.md" with the
\* last write winning: in the RunResult the entry at that key is the text
\* the documentation stage returned, also when the bundle already had an
\* entry there, and every other entry of the bundle is as it was.
C22_LastWriteWins ==
    [][(pc = "loop" /\ IsRunResult') =>
        /\ Result("files")' = current_code'
        /\ Keys(current_code') = Keys(current_code) \cup {DocKey}
        /\ Len(current_code'.v) = Cardinality(Keys(current_code'))
        /\ Lookup(current_code', DocKey).t = "str"
        /\ Lookup(current_code', DocKey).v \in agents.documentation_agent
        /\ \A k \in Keys(current_code) \ {DocKey} :
                Lookup(current_code', k) = Lookup(current_code, k)]_vars
C22_Witness ==
    /\ IsRunResult
    /\ sent.stage = "docs"
    /\ HasKey(sent.code, DocKey)
    /\ Lookup(sent.code, DocKey) = PyStr(Lit("old"))
    /\ Lookup(Result("files"), DocKey) = PyStr(<<"Docs">>)
    /\ Lookup(Result("files"), Lit("app")) = Lookup(sent.code, Lit("app"))

\* the stage returned the failure dict of its except clause for the text
InlineFailure(r) ==
    /\ r.exc = ""
    /\ r.val.t = "dict"
    /\ HasKey(r.val, Lit("raw_output"))
    /\ Lookup(r.val, Lit("raw_output")) = PyStr(response_text)

\* C23: on every text the requirements stage and the database-schema stage
\* recover what parse_json_response recovers: the same structured value
\* when it parses and a parse failure exactly when it fails.
C23_SameExtraction ==
    extracted.exc # "pending" =>
        /\ parsed_output(response_text).exc = extracted.exc
        /\ parsed_output(response_text).val = extracted.val
        /\ InlineFailure(analyze_requirements(response_text))
                <=> extracted.exc = "JSONDecodeError"
        /\ InlineFailure(generate_schemas(response_text))
                <=> extracted.exc = "JSONDecodeError"

\* the inner content of the block whose content starts at index from: up
\* to the next fence, or to the end of the text when no fence follows
BlockContent(text, from) ==
    LET rest == SubSeq(text, from, Len(text))
        close == Find(rest, <<FENCE>>)
    IN  Strip(IF close = 0 THEN rest ELSE SubSeq(rest, 1, close - 1))
\* the payload by priority: first json-tagged block, first block, whole text
Selected(text) ==
    LET tagged == Find(text, FenceJson)
        any == Find(text, <<FENCE>>)
    IN  IF tagged > 0 THEN BlockContent(text, tagged + Len(FenceJson))
        ELSE IF any > 0 THEN BlockContent(text, any + 1)
        ELSE text

\* C24: after the reasoning spans are removed, parse_json_response takes the
\* inner content of the first block opened by a fence tagged json when the
\* text has one, otherwise the inner content of the first fenced block,
\* otherwise the trimmed whole text, and its outcome is the outcome of the
\* strict parse of exactly that string.
C24_Priority ==
    extracted.exc # "pending" =>
        extracted = JsonLoads(Selected(Strip(ReSubThink(Strip(response_text)))))
C24_Witness ==
    /\ extracted.exc = ""
    /\ source_value # PyNone
    /\ extracted.val = source_value.v[1]
    /\ response_text[1] = THINK_OPEN
    /\ Find(response_text, FenceJson) > 1
    /\ Selected(Strip(ReSubThink(Strip(response_text)))) = JsonDumps(extracted.val)
    /\ extracted.val.t = "dict"

\* token i of s lies in a complete reasoning span: an opening marker at or
\* before i with no closing marker between it and i, and a closing marker
\* at or after i
InSpan(s, i) ==
    /\ \E j \in 1..i : /\ s[j] = THINK_OPEN
                       /\ \A k \in (j + 1)..(i - 1) : s[k] # THINK_CLOSE
    /\ \E c \in i..Len(s) : s[c] = THINK_CLOSE
RECURSIVE KeepFrom(_, _)
KeepFrom(s, i) ==
    IF i > Len(s) THEN <<>>
    ELSE (IF InSpan(s, i) THEN <<>> ELSE <<s[i]>>) \o KeepFrom(s, i + 1)
\* s with the tokens of its complete spans deleted and every other token kept
WithoutSpans(s) == KeepFrom(s, 1)
\* s has an opening marker with a closing marker somewhere after it
HasCompleteSpan(s) ==
    \E j \in 1..Len(s) : \E c \in (j + 1)..Len(s) :
        s[j] = THINK_OPEN /\ s[c] = THINK_CLOSE

\* C25: the removal of reasoning spans, in parse_json_response and in the
\* documentation stage, deletes the tokens of every complete span (from an
\* opening marker to the first closing marker after it) and keeps every
\* other token, the text between two spans included; a text whose opening
\* markers have no closing marker after them is left as it is; the removal
\* raises nothing.
C25_SpanRemoval ==
    LET text == Strip(response_text)
        kept == Strip(WithoutSpans(text))
    IN  extracted.exc # "pending" =>
            /\ documented = kept
            /\ ~HasCompleteSpan(text) => documented = text
            /\ extracted = JsonLoads(Selected(kept))
            /\ extracted.exc \in {"", "JSONDecodeError"}
C25_Witness ==
    /\ extracted.exc = ""
    /\ response_text =
        Thinking(JsonDumps(PyDict(<< <<Lit("k"), PyStr(<<THINK_OPEN, THINK_CLOSE>>)>> >>)))
    /\ extracted.val = PyDict(<< <<Lit("k"), EmptyStr>> >>)

\* the number of fences in a text
Fences(s) == Len(SelectSeq(s, LAMBDA tok : tok = FENCE))

\* C26: the documentation stage returns, for every text, the trimmed text
\* with its reasoning spans removed and nothing else changed: every fence
\* outside a reasoning span is still there, a text with a fenced block is
\* never reduced to the block's content, and a text that
\* parse_json_response fails on is returned all the same.
C26_DocPassThrough ==
    extracted.exc # "pending" =>
        LET stripped == Strip(WithoutSpans(Strip(response_text)))
        IN  /\ documented = stripped
            /\ Fences(documented) = Fences(stripped)
            /\ Contains(documented, <<FENCE>>) => documented # Payload(response_text)
            /\ Len(documented) >= Len(Payload(response_text))
C26_Witness ==
    /\ extracted.exc = "JSONDecodeError"
    /\ Len(response_text) > 0
    /\ response_text[1] = THINK_OPEN
    /\ Fences(documented) = 2
    /\ Len(documented) < Len(response_text)
    /\ Len(documented) > Len(Payload(response_text))

\* C27: each code-stage call is given the loop's state as the calls before
\* it left it: the first call gets the empty bundle and the empty feedback;
\* a call that follows a review gets the bundle the code stage of that
\* iteration produced (the one the review was given) and the feedback of
\* that review; a call that follows a failed code call gets what the failed
\* call was given.
C27_CodeCallInputs ==
    [][StageStep("code") =>
        /\ sent'.schema = file_schema
        /\ LastCall.stage = "schema" =>
            /\ sent'.code = EmptyDict
            /\ sent'.feedback = EmptyStr
        /\ LastCall.stage = "review" =>
            /\ sent'.code = DictGet(code_result, Lit("files"), EmptyDict)
            /\ sent'.code = sent.code
            /\ sent'.feedback =
                DictGet(review_result, Lit("feedback_for_coder"), EmptyStr)
        /\ LastCall.stage = "code" =>
            /\ sent'.code = sent.code
            /\ sent'.feedback = sent.feedback]_vars
C27_Witness ==
    /\ sent.stage = "code"
    /\ Len(calls) = 6
    /\ calls[2].verdict = PyBool(TRUE)
    /\ calls[3].stage = "review"
    /\ calls[4].verdict = PyBool(TRUE)
    /\ calls[5].stage = "review"
    /\ sent.code = CodeApp
    /\ sent.feedback = PyStr(<<"add", WS, "tests">>)
    /\ code_result # CodeAnswer(CodeApp)

\* the dict d without its entry at key k
Without(d, k) == PyDict(SelectSeq(d.v, LAMBDA p : p[1] # k))

\* C28, as claimed: every review call is given exactly the bundle the code
\* stage generated in the same iteration, and when the RunResult has
\* approved = true its files without the documentation entry are exactly
\* the bundle the approving review was given.
C28_VerdictDescribesFiles ==
    [][/\ StageStep("review") =>
            /\ LastCall.stage = "code"
            /\ LastCall.iter = calls'[Len(calls')].iter
            /\ sent'.code = DictGet(code_result, Lit("files"), EmptyDict)
       /\ (pc = "loop" /\ IsRunResult' /\ Result("approved")' = PyBool(TRUE)) =>
            /\ ApprovingReview(Len(calls))
            /\ sent.stage = "review"
            /\ Without(Result("files")', DocKey) = sent.code]_vars

\* C28, amended: every review call is given exactly the bundle the code
\* stage generated in the same iteration, and when the RunResult has
\* approved = true its files and the bundle the approving review was given
\* are the same at every key other than the documentation key.
C28_VerdictDescribesOtherFiles ==
    [][/\ StageStep("review") =>
            /\ LastCall.stage = "code"
            /\ LastCall.iter = calls'[Len(calls')].iter
            /\ sent'.code = DictGet(code_result, Lit("files"), EmptyDict)
       /\ (pc = "loop" /\ IsRunResult' /\ Result("approved")' = PyBool(TRUE)) =>
            /\ ApprovingReview(Len(calls))
            /\ sent.stage = "review"
            /\ Without(Result("files")', DocKey) = Without(sent.code, DocKey)]_vars
C28_Witness ==
    /\ IsRunResult
    /\ Result("approved") = PyBool(TRUE)
    /\ ApprovingReview(Len(calls) - 1)
    /\ code_result = CodeAnswer(CodeApp)
    /\ Without(Result("files"), DocKey) = Without(CodeApp, DocKey)
    /\ Lookup(Result("files"), DocKey) # Lookup(CodeApp, DocKey)

\* C29: a code stage whose answer fails to parse advances the counter and
\* changes nothing else of the loop's state: the schema, the bundle, the
\* feedback and the approval flag stay as they were and the run goes back
\* to the while test; the code call that follows it is given the same
\* schema, bundle and feedback as the failed call.
C29_FailureOnlyCounts ==
    /\ [][(StageStep("code") /\ ~calls'[Len(calls')].parsed) =>
            /\ iteration' = iteration + 1
            /\ file_schema' = file_schema
            /\ current_code' = current_code
            /\ review_feedback' = review_feedback
            /\ approved' = approved
            /\ pc' = "loop"
            /\ outcome' = outcome]_vars
    /\ [][(StageStep("code") /\ UnparsedCode(Len(calls))) =>
            /\ sent'.schema = sent.schema
            /\ sent'.code = sent.code
            /\ sent'.feedback = sent.feedback]_vars
C29_Witness ==
    /\ Len(calls) = 5
    /\ calls[3].stage = "review"
    /\ UnparsedCode(4)
    /\ calls[5].stage = "code"
    /\ iteration = 3
    /\ sent.code = CodeMain
    /\ sent.feedback = PyStr(<<"add", WS, "tests">>)
    /\ approved = PyBool(FALSE)

\* C30: a code-stage answer that parses to an object without a "files"
\* mapping is rejected: the bundle stays as it was and the review stage is
\* not invoked, so a non-empty bundle is never replaced by an empty one.
C30_MissingFilesRejected ==
    [][(/\ StageStep("code")
        /\ calls'[Len(calls')].parsed
        /\ code_result'.t = "dict"
        /\ ~HasKey(code_result', Lit("files"))) =>
            /\ current_code' = current_code
            /\ pc' # "review"]_vars

\* ------------------------------------------------ claims on run_container
\* the last reload showed a binding for every requested port
AllShown ==
    \A k \in Keys(ports_dict) :
        /\ HasKey(container_ports, k)
        /\ Lookup(container_ports, k).t = "list"
        /\ Len(Lookup(container_ports, k).v) >= 1

\* C31: port discovery is bounded.  With ports requested the container is
\* reloaded at most 10 times, with one sleep after every attempt that did
\* not show all ports; polling goes on only while the last attempt did not
\* show all ports, and a call that returned before the 10th attempt returned
\* at an attempt that showed them all; without requested ports nothing is
\* reloaded; and the call returns whatever the runtime shows.
C31_BoundedPolling ==
    /\ [](/\ reloads <= RetryBudget
          /\ sleeps <= reloads
          /\ tool = "polling" => (reloads < RetryBudget /\ sleeps = reloads)
          /\ (tool = "polling" /\ reloads > 0) => ~AllShown
          /\ (tool = "returned" /\ reloads > 0) =>
                /\ AllShown <=> sleeps = reloads - 1
                /\ ~AllShown => (reloads = RetryBudget /\ sleeps = RetryBudget)
          /\ (tool # "idle" /\ ~Truthy(ports_dict)) =>
                (tool = "returned" /\ reloads = 0 /\ sleeps = 0))
    /\ (tool = "polling" ~> tool = "returned")
C31_Witness ==
    /\ tool = "returned"
    /\ reloads = RetryBudget
    /\ sleeps = RetryBudget
    /\ ~AllShown
    /\ Len(ports_dict.v) = 2
    /\ returned.exc = ""

\* the host port the last reload showed for key k, None when it showed none
ShownHost(shown, k) ==
    IF /\ HasKey(shown, k)
       /\ Lookup(shown, k).t = "list"
       /\ Len(Lookup(shown, k).v) >= 1
    THEN Lookup(Lookup(shown, k).v[1], Lit("HostPort"))
    ELSE PyNone

\* C36: port_mappings has requested keys only; an attempt that shows a
\* binding for a requested port sets the port's entry to the host port
\* shown, and an attempt that does not show one leaves the port's entry, or
\* its absence, as it was; whenever the call returns, also with the budget
\* used up, it returns status "success" with the mapping collected so far.
C36_PortMappings ==
    /\ [](/\ ports_dict.t = "dict" => Keys(port_mappings) \subseteq Keys(ports_dict)
          /\ ports_dict.t # "dict" => port_mappings = EmptyDict
          /\ tool = "returned" =>
                /\ returned.exc = ""
                /\ Lookup(returned.val, Lit("status")) = PyStr(Lit("success"))
                /\ Lookup(returned.val, Lit("port_mappings")) = port_mappings)
    /\ [][reloads' = reloads + 1 =>
            \A k \in Keys(ports_dict) :
                IF ShownHost(container_ports', k) # PyNone
                THEN /\ HasKey(port_mappings', k)
                     /\ Lookup(port_mappings', k) = ShownHost(container_ports', k)
                ELSE /\ HasKey(port_mappings', k) <=> HasKey(port_mappings, k)
                     /\ HasKey(port_mappings, k) =>
                            Lookup(port_mappings', k) = Lookup(port_mappings, k)]_vars
C36_Witness ==
    /\ tool = "returned"
    /\ reloads = RetryBudget
    /\ ports_dict = PyDict(<< <<Port80, PyNone>>, <<Port443, PyNone>> >>)
    /\ ShownHost(container_ports, Port80) = PyNone
    /\ Lookup(returned.val, Lit("port_mappings")) =
            PyDict(<< <<Port80, PyStr(Lit("32768"))>> >>)

\* C32: the run is aborted as a schema failure exactly when the schema
\* answer failed to parse, and an iteration skips the review exactly when
\* the code answer failed to parse: an answer that parses to an object is
\* never treated as a failure, whatever keys it has.
C32_FailureIffUnparsed ==
    /\ []((Len(calls) >= 1 /\ (file_schema.t = "dict" \/ ~calls[1].parsed)) =>
            (IsErrorResult <=> ~calls[1].parsed))
    /\ [][(StageStep("code") /\ (code_result'.t = "dict" \/ ~calls'[Len(calls')].parsed)) =>
            ((pc' = "loop") <=> ~calls'[Len(calls')].parsed)]_vars

\* C33: the approval flag is a boolean whatever the review answer carries
\* under "approved": inside the loop and in the RunResult it is true or
\* false, and the loop ends before the ceiling only when it is true.
C33_ApprovalBoolean ==
    /\ pc \in {"loop", "review"} => approved.t = "bool"
    /\ IsRunResult => Result("approved").t = "bool"
    /\ (LoopExited /\ iteration < max_iterations) => approved = PyBool(TRUE)

\* the code calls whose result the driver took as a success
SuccessfulCodeCalls ==
    {i \in CallsOf("code") : calls[i].verdict = PyBool(TRUE)}

\* C34: in every state of a run, once the schema stage has been called:
\* schema calls = 1; review calls <= successful code calls <= code calls =
\* the iteration counter, which is <= N when N >= 1; documentation calls
\* <= 1, and the documentation call comes after every code and review call.
C34_CallCounts ==
    /\ Cardinality(CallsOf("schema")) = (IF pc = "start" THEN 0 ELSE 1)
    /\ Cardinality(CallsOf("review")) <= Cardinality(SuccessfulCodeCalls)
    /\ Cardinality(SuccessfulCodeCalls) <= CodeCalls
    /\ CodeCalls = iteration
    /\ max_iterations >= 1 => iteration <= max_iterations
    /\ Cardinality(CallsOf("docs")) <= 1
    /\ \A d \in CallsOf("docs") :
            \A i \in CallsOf("code") \cup CallsOf("review") : i < d
C34_Witness ==
    /\ IsRunResult
    /\ max_iterations = 3
    /\ iteration = 3
    /\ CodeCalls = 3
    /\ Cardinality(SuccessfulCodeCalls) = 2
    /\ Cardinality(CallsOf("review")) = 2
    /\ Cardinality(CallsOf("docs")) = 1

\* the schema stage returned an object that the driver accepted
SchemaSucceeded ==
    /\ Len(calls) >= 1
    /\ calls[1].verdict = PyBool(TRUE)
    /\ file_schema.t = "dict"

=============================================================================
